---- MODULE Spec2Model ----
(***************************************************************************)
(* Model of the mutable JsonCpp adapter of valijson                        *)
(* (include/valijson/adapters/jsoncpp_mutable_adapter.hpp) and of the      *)
(* capability dispatch helpers (include/valijson/internal/                 *)
(* default_helper.hpp).                                                    *)
(*                                                                         *)
(* A Json::Value is a record tagged with its JsonCpp ValueType.  A node    *)
(* reference (the Value *m_value of JsonCppValue, JsonCppArray and         *)
(* JsonCppObject) is either Unbound (the null pointer) or a path into a    *)
(* tree.  The JsonCpp primitives the adapter calls (isDouble, isIntegral,  *)
(* size, append, operator[], isMember, begin/end) follow JsonCpp 1.x.      *)
(***************************************************************************)
EXTENDS Integers, Sequences, FiniteSets, TLC

\* Largest index handed to Resize, and the cap on direct array create().
MaxIndex == 2
\* Width in bits of Json::Int as modelled: Json::Int is 32 bits wide and the
\* int64_t arguments of setInteger are wider; the model keeps a narrow Int and
\* arguments on both sides of its range.
IntBits == 4

VARIABLES
    document,        \* the caller's tree (Json::Value document)
    call,            \* the last call made on the adapter layer and its outcome
    schemaDocument,  \* the tree a default is frozen from
    frozen,          \* JsonCppFrozenValue made by freeze()
    cloned,          \* JsonCppFrozenValue made by clone()
    frozenOriginal,  \* history: the value the frozen node held at freeze()
    otherDocument,   \* a destination wrapped by an adapter of another type
    insertionOrder,  \* history: the order in which the test built `document`
    held             \* the adapter an earlier create(name) returned, if kept

vars == <<document, call, schemaDocument, frozen, cloned, frozenOriginal,
          otherDocument, insertionOrder, held>>

-----------------------------------------------------------------------------
(* Json::Value                                                             *)

NullV == [type |-> "nullValue"]
BoolV(b) == [type |-> "booleanValue", bool |-> b]
IntV(i) == [type |-> "intValue", int |-> i]
\* a double is kept as twice its value, so that 1.5 is RealV(3), 1.0 RealV(2)
RealV(h) == [type |-> "realValue", halves |-> h]
StrV(s) == [type |-> "stringValue", str |-> s]
ArrV(es) == [type |-> "arrayValue", elems |-> es]
ObjV(m) == [type |-> "objectValue", members |-> m]

EmptyMembers == [k \in {} |-> NullV]
EmptyObject == ObjV(EmptyMembers)
EmptyArray == ArrV(<<>>)

\* member names, with the bytes of each (std::string contents)
Keys == {"A", "a", "ab", "b"}
KeyBytes(k) ==
    CASE k = "A" -> <<65>>
      [] k = "a" -> <<97>>
      [] k = "b" -> <<98>>
      [] k = "ab" -> <<97, 98>>

Min(x, y) == IF x < y THEN x ELSE y

-----------------------------------------------------------------------------
(* JsonCpp primitives called by the adapter                                *)

Json_isNull(v) == v.type = "nullValue"
Json_isBool(v) == v.type = "booleanValue"
Json_isString(v) == v.type = "stringValue"
Json_isArray(v) == v.type = "arrayValue"
Json_isObject(v) == v.type = "objectValue"
\* Value::isIntegral(): an int, or a double without a fractional part
Json_isIntegral(v) ==
    \/ v.type = "intValue"
    \/ v.type = "realValue" /\ v.halves % 2 = 0
\* Value::isDouble(): any numeric type; isNumeric() is the same test
Json_isDouble(v) == v.type \in {"intValue", "realValue"}
Json_isNumeric(v) == Json_isDouble(v)
Json_asBool(v) == v.bool
Json_asString(v) == v.str
\* twice the numeric value of an int or a double
Json_twice(v) == IF v.type = "intValue" THEN 2 * v.int ELSE v.halves
Json_asDouble(v) == Json_twice(v)
\* Value::asInt(): the value as a 32-bit Int; JSON_ASSERT_MESSAGE throws when
\* an int or a double is outside minInt..maxInt; a double is truncated
Json_maxInt == 2 ^ (IntBits - 1) - 1
Json_minInt == -Json_maxInt - 1
Json_asInt(v) ==
    CASE v.type = "intValue" ->
           IF v.int \in Json_minInt..Json_maxInt
           THEN [thrown |-> FALSE, value |-> v.int]
           ELSE [thrown |-> TRUE, what |-> "LargestInt out of Int range"]
      [] v.type = "realValue" ->
           IF v.halves >= 2 * Json_minInt /\ v.halves <= 2 * Json_maxInt
           THEN [thrown |-> FALSE,
                 value |-> IF v.halves >= 0 THEN v.halves \div 2
                           ELSE -((-v.halves) \div 2)]
           ELSE [thrown |-> TRUE, what |-> "double out of Int range"]
      [] v.type = "nullValue" -> [thrown |-> FALSE, value |-> 0]
      [] v.type = "booleanValue" ->
           [thrown |-> FALSE, value |-> IF v.bool THEN 1 ELSE 0]
      [] OTHER -> [thrown |-> TRUE, what |-> "Value is not convertible to Int."]

\* Value::size(): elements of an array, members of an object, else 0
Json_size(v) ==
    CASE v.type = "arrayValue" -> Len(v.elems)
      [] v.type = "objectValue" -> Cardinality(DOMAIN v.members)
      [] OTHER -> 0

Json_isMember(v, name) == v.type = "objectValue" /\ name \in DOMAIN v.members

\* Value::append(x): a new last element holding x
Json_append(v, x) == ArrV(Append(v.elems, x))

\* Value::operator[](name): the member's slot, a null member being inserted
\* first when there is none
Json_subscript(v, name) ==
    IF name \in DOMAIN v.members
    THEN v
    ELSE ObjV([k \in DOMAIN v.members \cup {name} |->
                  IF k = name THEN NullV ELSE v.members[k]])

\* CZString::operator<: memcmp over the common length, then the shorter first
RECURSIVE memcmp(_, _, _)
memcmp(s, t, n) ==
    IF n = 0 THEN 0
    ELSE IF Head(s) < Head(t) THEN -1
    ELSE IF Head(s) > Head(t) THEN 1
    ELSE memcmp(Tail(s), Tail(t), n - 1)

CZStringLess(a, b) ==
    LET s == KeyBytes(a)
        t == KeyBytes(b)
        c == memcmp(s, t, Min(Len(s), Len(t)))
    IN  c < 0 \/ (c = 0 /\ Len(s) < Len(t))

\* the keys of a member map from begin() to end(): the std::map's order
RECURSIVE KeysInOrder(_)
KeysInOrder(S) ==
    IF S = {} THEN <<>>
    ELSE LET first == CHOOSE k \in S : \A j \in S \ {k} : CZStringLess(k, j)
         IN  <<first>> \o KeysInOrder(S \ {first})

MemberOrder(v) == KeysInOrder(DOMAIN v.members)

-----------------------------------------------------------------------------
(* Node references: Value *m_value                                          *)

Unbound == [bound |-> FALSE]
Ref(p) == [bound |-> TRUE, path |-> p]
Root == Ref(<<>>)
KeyStep(k) == [key |-> k]
IdxStep(i) == [idx |-> i]
Child(r, step) == Ref(Append(r.path, step))

RECURSIVE ValueAt(_, _)
ValueAt(v, p) ==
    IF p = <<>> THEN v
    ELSE IF "key" \in DOMAIN Head(p)
         THEN ValueAt(v.members[Head(p).key], Tail(p))
         ELSE ValueAt(v.elems[Head(p).idx], Tail(p))

\* *m_value = x for the node at path p
RECURSIVE Store(_, _, _)
Store(v, p, x) ==
    IF p = <<>> THEN x
    ELSE IF "key" \in DOMAIN Head(p)
         THEN ObjV([v.members EXCEPT
                      ![Head(p).key] = Store(v.members[Head(p).key], Tail(p), x)])
         ELSE ArrV([v.elems EXCEPT
                      ![Head(p).idx] = Store(v.elems[Head(p).idx], Tail(p), x)])

Deref(t, r) == ValueAt(t, r.path)

-----------------------------------------------------------------------------
(* JsonCppValue: reads and writes through m_value; t is the tree r is in   *)

isArray(t, r) ==
    r.bound /\ Json_isArray(Deref(t, r)) /\ ~Json_isNull(Deref(t, r))
isBool(t, r) == r.bound /\ Json_isBool(Deref(t, r))
isDouble(t, r) == r.bound /\ Json_isDouble(Deref(t, r))
isInteger(t, r) ==
    r.bound /\ Json_isIntegral(Deref(t, r)) /\ ~Json_isBool(Deref(t, r))
isNull(t, r) == ~r.bound \/ Json_isNull(Deref(t, r))
isNumber(t, r) ==
    r.bound /\ Json_isNumeric(Deref(t, r)) /\ ~Json_isBool(Deref(t, r))
isObject(t, r) ==
    r.bound /\ Json_isObject(Deref(t, r)) /\ ~Json_isNull(Deref(t, r))
isString(t, r) == r.bound /\ Json_isString(Deref(t, r))

Absent == [present |-> FALSE]
Present(x) == [present |-> TRUE, value |-> x]
\* the getter did not return: an exception left it
Raised(what) == [present |-> FALSE, raised |-> what]

getBool(t, r) ==
    IF r.bound /\ Json_isBool(Deref(t, r))
    THEN Present(Json_asBool(Deref(t, r))) ELSE Absent
getDouble(t, r) ==
    IF r.bound /\ Json_isDouble(Deref(t, r))
    THEN Present(Json_asDouble(Deref(t, r))) ELSE Absent
\* asInt() throwing leaves getInteger by the exception
getInteger(t, r) ==
    IF r.bound /\ Json_isIntegral(Deref(t, r))
    THEN LET asInt == Json_asInt(Deref(t, r))
         IN  IF asInt.thrown THEN Raised(asInt.what) ELSE Present(asInt.value)
    ELSE Absent
getString(t, r) ==
    IF r.bound /\ Json_isString(Deref(t, r))
    THEN Present(Json_asString(Deref(t, r))) ELSE Absent
getArraySize(t, r) ==
    IF r.bound /\ Json_isArray(Deref(t, r))
    THEN Present(Json_size(Deref(t, r))) ELSE Absent
getObjectSize(t, r) ==
    IF r.bound /\ Json_isObject(Deref(t, r))
    THEN Present(Json_size(Deref(t, r))) ELSE Absent

\* the optional holds a container over the same m_value
getArrayOptional(t, r) ==
    IF r.bound /\ Json_isArray(Deref(t, r)) THEN Present(r) ELSE Absent
getObjectOptional(t, r) ==
    IF r.bound /\ Json_isObject(Deref(t, r)) THEN Present(r) ELSE Absent

\* the setters: if (m_value) *m_value = ...; each gives the tree afterwards
\* a setAsObject that leaves a value that already is an object alone
setAsObject_keepsMembers(t, r) ==
    IF r.bound /\ ~Json_isObject(Deref(t, r))
    THEN Store(t, r.path, EmptyObject) ELSE t
setAsArray(t, r) == IF r.bound THEN Store(t, r.path, EmptyArray) ELSE t
setAsObject(t, r) == IF r.bound THEN Store(t, r.path, EmptyObject) ELSE t
setBool(t, r, b) == IF r.bound THEN Store(t, r.path, BoolV(b)) ELSE t
\* a setDouble that adds to a double already there
setDouble_accumulates(t, r, d) ==
    IF ~r.bound THEN t
    ELSE IF Deref(t, r).type = "realValue"
    THEN Store(t, r.path, RealV(Deref(t, r).halves + d))
    ELSE Store(t, r.path, RealV(d))
\* d is twice the double
setDouble(t, r, d) == IF r.bound THEN Store(t, r.path, RealV(d)) ELSE t
setInteger(t, r, i) == IF r.bound THEN Store(t, r.path, IntV(i)) ELSE t
setString(t, r, str) == IF r.bound THEN Store(t, r.path, StrV(str)) ELSE t
\* setValue(Json::Value const &): a copy of the whole value
setValue(t, r, v) == IF r.bound THEN Store(t, r.path, v) ELSE t

-----------------------------------------------------------------------------
(* JsonCppArray and JsonCppObject                                           *)

\* the constructors: throwRuntimeError unless unbound or of the right kind
\* a constructor that takes a null value for an empty array
JsonCppArray_acceptsNull(t, r) ==
    IF r.bound /\ ~Json_isArray(Deref(t, r)) /\ ~Json_isNull(Deref(t, r))
    THEN [thrown |-> TRUE, what |-> "Value is not an array."]
    ELSE [thrown |-> FALSE, container |-> r]
JsonCppArray(t, r) ==
    IF r.bound /\ ~Json_isArray(Deref(t, r))
    THEN [thrown |-> TRUE, what |-> "Value is not an array."]
    ELSE [thrown |-> FALSE, container |-> r]
JsonCppObject(t, r) ==
    IF r.bound /\ ~Json_isObject(Deref(t, r))
    THEN [thrown |-> TRUE, what |-> "Value is not an object."]
    ELSE [thrown |-> FALSE, container |-> r]

\* size() of either container
Container_size(t, c) == IF c.bound THEN Json_size(Deref(t, c)) ELSE 0

\* An iterator is a position in the container's order; the default
\* constructed iterator of an unbound container is [isNull |-> TRUE].
NullIterator == [isNull |-> TRUE]
Iterator(c, pos) == [isNull |-> FALSE, container |-> c, pos |-> pos]
Container_begin(t, c) == IF c.bound THEN Iterator(c, 1) ELSE NullIterator
Container_end(t, c) ==
    IF c.bound THEN Iterator(c, Json_size(Deref(t, c)) + 1) ELSE NullIterator

\* operator* of the array iterator: an adapter over the element
ArrayIterator_deref(t, it) == Child(it.container, IdxStep(it.pos))
\* operator* of the member iterator: (key, adapter over the member)
\* a dereference that always yields the first member
MemberIterator_deref_first(t, it) ==
    LET k == MemberOrder(Deref(t, it.container))[1]
    IN  <<k, Child(it.container, KeyStep(k))>>
MemberIterator_deref(t, it) ==
    LET k == MemberOrder(Deref(t, it.container))[it.pos]
    IN  <<k, Child(it.container, KeyStep(k))>>

\* itr.key() == propertyName: equal lengths and equal bytes
\* a comparison over the common length only
KeyEquals_prefix(k, name) ==
    LET s == KeyBytes(k)
        n == KeyBytes(name)
    IN  memcmp(s, n, Min(Len(s), Len(n))) = 0
KeyEquals(k, name) ==
    LET s == KeyBytes(k)
        n == KeyBytes(name)
    IN  Len(s) = Len(n) /\ memcmp(s, n, Len(s)) = 0

\* the scan of find() from position pos on
RECURSIVE FindFrom(_, _, _, _)
FindFrom(t, c, name, pos) ==
    IF pos > Json_size(Deref(t, c)) THEN Container_end(t, c)
    ELSE IF KeyEquals(MemberOrder(Deref(t, c))[pos], name) THEN Iterator(c, pos)
    ELSE FindFrom(t, c, name, pos + 1)

JsonCppObject_find(t, c, name) ==
    IF c.bound /\ Json_isMember(Deref(t, c), name)
    THEN FindFrom(t, c, name, 1)
    ELSE Container_end(t, c)

\* create(): the tree afterwards and the adapter returned
JsonCppArray_create(t, c) ==
    IF ~c.bound
    THEN [tree |-> t, adapter |-> Unbound]
    ELSE [tree |-> Store(t, c.path, Json_append(Deref(t, c), NullV)),
          adapter |-> Child(c, IdxStep(Json_size(Deref(t, c)) + 1))]

\* a create(name) that assigns a fresh object holding only the new member
JsonCppObject_create_clobbers(t, c, propertyName) ==
    IF ~c.bound
    THEN [tree |-> t, adapter |-> Unbound]
    ELSE [tree |-> Store(t, c.path, ObjV([k \in {propertyName} |-> NullV])),
          adapter |-> Child(c, KeyStep(propertyName))]

\* a create(name) that assigns null to the member it returns
JsonCppObject_create_resets(t, c, propertyName) ==
    IF ~c.bound
    THEN [tree |-> t, adapter |-> Unbound]
    ELSE [tree |-> Store(Store(t, c.path,
                               Json_subscript(Deref(t, c), propertyName)),
                         Append(c.path, KeyStep(propertyName)), NullV),
          adapter |-> Child(c, KeyStep(propertyName))]

JsonCppObject_create(t, c, propertyName) ==
    IF ~c.bound
    THEN [tree |-> t, adapter |-> Unbound]
    ELSE [tree |-> Store(t, c.path, Json_subscript(Deref(t, c), propertyName)),
          adapter |-> Child(c, KeyStep(propertyName))]

\* the items a range-for visits: from it up to end(), ++ after each
RECURSIVE ArrayVisit(_, _, _)
ArrayVisit(t, c, it) ==
    IF it = Container_end(t, c) THEN <<>>
    ELSE <<ArrayIterator_deref(t, it)>>
             \o ArrayVisit(t, c, Iterator(c, it.pos + 1))
RECURSIVE MemberVisit(_, _, _)
MemberVisit(t, c, it) ==
    IF it = Container_end(t, c) THEN <<>>
    ELSE <<MemberIterator_deref(t, it)>>
             \o MemberVisit(t, c, Iterator(c, it.pos + 1))

-----------------------------------------------------------------------------
(* What a caller can observe of a value through the adapter: the results   *)
(* of every classification predicate and getter, and the same for each     *)
(* element and member, in iteration order.                                  *)

RECURSIVE Observe(_)
Observe(v) ==
    [ isNull |-> isNull(v, Root), isBool |-> isBool(v, Root),
      isInteger |-> isInteger(v, Root), isDouble |-> isDouble(v, Root),
      isNumber |-> isNumber(v, Root), isString |-> isString(v, Root),
      isArray |-> isArray(v, Root), isObject |-> isObject(v, Root),
      getBool |-> getBool(v, Root), getDouble |-> getDouble(v, Root),
      getInteger |-> getInteger(v, Root), getString |-> getString(v, Root),
      elems |-> IF Json_isArray(v)
                THEN [i \in 1..Len(v.elems) |-> Observe(v.elems[i])]
                ELSE <<>>,
      keys |-> IF Json_isObject(v) THEN MemberOrder(v) ELSE <<>>,
      members |-> IF Json_isObject(v)
                  THEN [i \in 1..Len(MemberOrder(v)) |->
                           Observe(v.members[MemberOrder(v)[i]])]
                  ELSE <<>> ]

-----------------------------------------------------------------------------
(* The source side of Assign.  The source is an Adapter over a value s; its *)
(* kind tests are those of the JsonCppValue it wraps, and asX() returns     *)
(* what the matching getX() yields.                                         *)

Adapter_asString(s) == getString(s, Root).value
Adapter_asBool(s) == getBool(s, Root).value
Adapter_asDouble(s) == getDouble(s, Root).value
Adapter_asInteger(s) == getInteger(s, Root).value

-----------------------------------------------------------------------------
(* Capability dispatch: default_helper.hpp                                  *)

\* OptionalMutableTrait: the tag exists when Value is not const
AdapterTypes == {"MutableJsonCppAdapter", "JsonCppAdapter"}
\* a mutable adapter over a tree of another representation
OtherMutableAdapter == "OtherMutableAdapter"
\* a trait that gives every instantiation the tag
HasMutableTag_always(adapterType) == TRUE
HasMutableTag(adapterType) ==
    adapterType \in {"MutableJsonCppAdapter", OtherMutableAdapter}

\* The primary templates: empty bodies.
AssignHelper_primary(t, r, s) == [tree |-> t, ub |-> FALSE]
CreateKeyHelper_primary(t, c, propertyName) == t
ResizeHelper_primary(t, c, index) == [tree |-> t, returns |-> TRUE]

RECURSIVE AssignHelper_mutable(_, _, _)
RECURSIVE AssignMembers(_, _, _, _)
RECURSIVE AssignElements(_, _, _, _)
RECURSIVE AssignHelper(_, _, _, _)

\* Adapter::setValue(Adapter const &) of an adapter of type adapterType
BasicAdapter_setValue(adapterType, t, r, s) == AssignHelper(adapterType, t, r, s)

\* applyToObject: the lambda, for the members of s named in ks, in order.
\* ub: operator-> was applied to an empty optional.
AssignMembers(t, r, s, ks) ==
    IF ks = <<>> THEN [tree |-> t, ub |-> FALSE]
    ELSE LET opt == getObjectOptional(t, r) IN
         IF ~opt.present THEN [tree |-> t, ub |-> TRUE]
         ELSE LET made == JsonCppObject_create(t, opt.value, Head(ks))
                  done == BasicAdapter_setValue("MutableJsonCppAdapter",
                              made.tree, made.adapter, s.members[Head(ks)])
              IN  IF done.ub THEN done
                  ELSE AssignMembers(done.tree, r, s, Tail(ks))

\* applyToArray: the lambda, for the elements es of the source, in order
AssignElements(t, r, s, es) ==
    IF es = <<>> THEN [tree |-> t, ub |-> FALSE]
    ELSE LET opt == getArrayOptional(t, r) IN
         IF ~opt.present THEN [tree |-> t, ub |-> TRUE]
         ELSE LET made == JsonCppArray_create(t, opt.value)
                  done == BasicAdapter_setValue("MutableJsonCppAdapter",
                              made.tree, made.adapter, Head(es))
              IN  IF done.ub THEN done
                  ELSE AssignElements(done.tree, r, s, Tail(es))

AssignHelper_mutable(t, r, s) ==
    IF isObject(s, Root)
    THEN AssignMembers(setAsObject(t, r), r, s, MemberOrder(s))
    ELSE IF isArray(s, Root)
    THEN AssignElements(setAsArray(t, r), r, s, s.elems)
    ELSE IF isString(s, Root)
    THEN [tree |-> setString(t, r, Adapter_asString(s)), ub |-> FALSE]
    ELSE IF isBool(s, Root)
    THEN [tree |-> setBool(t, r, Adapter_asBool(s)), ub |-> FALSE]
    ELSE IF isDouble(s, Root)
    THEN [tree |-> setDouble(t, r, Adapter_asDouble(s)), ub |-> FALSE]
    ELSE IF isInteger(s, Root)
    THEN [tree |-> setInteger(t, r, Adapter_asInteger(s)), ub |-> FALSE]
    ELSE [tree |-> t, ub |-> FALSE]

\* the setters the scalar branches call for the source s, in order
AssignHelper_scalarSetters(s) ==
    IF isObject(s, Root) \/ isArray(s, Root) THEN <<>>
    ELSE IF isString(s, Root) THEN <<"setString">>
    ELSE IF isBool(s, Root) THEN <<"setBool">>
    ELSE IF isDouble(s, Root) THEN <<"setDouble">>
    ELSE IF isInteger(s, Root) THEN <<"setInteger">>
    ELSE <<>>

\* AssignHelper<AdapterType>: the specialisation is chosen by the tag
AssignHelper(adapterType, t, r, s) ==
    IF HasMutableTag(adapterType)
    THEN AssignHelper_mutable(t, r, s)
    ELSE AssignHelper_primary(t, r, s)

CreateKeyHelper_mutable(t, c, propertyName) ==
    JsonCppObject_create(t, c, propertyName).tree

CreateKeyHelper(adapterType, t, c, propertyName) ==
    IF HasMutableTag(adapterType)
    THEN CreateKeyHelper_mutable(t, c, propertyName)
    ELSE CreateKeyHelper_primary(t, c, propertyName)

\* while (index >= adapter.size()) adapter.create();
\* returns: whether the loop exits.  On an unbound container size() stays 0
\* and create() appends nothing, so the condition never turns false.
\* a loop that stops as soon as the length reaches index
RECURSIVE ResizeHelper_mutable_stopsAtIndex(_, _, _)
ResizeHelper_mutable_stopsAtIndex(t, c, index) ==
    IF index > Container_size(t, c)
    THEN LET made == JsonCppArray_create(t, c)
         IN  IF made.tree = t
             THEN [tree |-> t, returns |-> FALSE]
             ELSE ResizeHelper_mutable_stopsAtIndex(made.tree, c, index)
    ELSE [tree |-> t, returns |-> TRUE]
RECURSIVE ResizeHelper_mutable(_, _, _)
ResizeHelper_mutable(t, c, index) ==
    IF index >= Container_size(t, c)
    THEN LET made == JsonCppArray_create(t, c)
         IN  IF made.tree = t
             THEN [tree |-> t, returns |-> FALSE]
             ELSE ResizeHelper_mutable(made.tree, c, index)
    ELSE [tree |-> t, returns |-> TRUE]

ResizeHelper(adapterType, t, c, index) ==
    IF HasMutableTag(adapterType)
    THEN ResizeHelper_mutable(t, c, index)
    ELSE ResizeHelper_primary(t, c, index)

-----------------------------------------------------------------------------
(* JsonCppFrozenValue.  m_value is a Json::Value of its own; `alias` says   *)
(* whether it is instead the node of the schema document it was made from.  *)

NoAlias == [aliased |-> FALSE]

\* a snapshot that keeps a reference to the value it is given
JsonCppFrozenValue_reference(source) ==
    [made |-> TRUE, m_value |-> source.value,
     alias |-> IF source.ref.bound
               THEN [aliased |-> TRUE, ref |-> source.ref] ELSE NoAlias]
\* the constructor: m_value(source), a copy
JsonCppFrozenValue(source) ==
    [made |-> TRUE, m_value |-> source.value, alias |-> NoAlias]

\* a read of m_value, the schema document being t
FrozenValue_value(f, t) ==
    IF f.alias.aliased THEN Deref(t, f.alias.ref) ELSE f.m_value

\* JsonCppValue::freeze(): the value referred to, or a null value
JsonCppValue_freeze(t, r) ==
    JsonCppFrozenValue([ref |-> r,
                        value |-> IF r.bound THEN Deref(t, r) ELSE NullV])

\* clone(): a new snapshot made from m_value
JsonCppFrozenValue_clone(f, t) ==
    JsonCppFrozenValue([ref |-> Unbound, value |-> FrozenValue_value(f, t)])

\* Adapter::equalTo(other, strict) of the adapter over a, other being over b:
\* structural equality; strict mode requires the kinds to match exactly,
\* otherwise numbers compare by value
RECURSIVE BasicAdapter_equalTo(_, _, _)
BasicAdapter_equalTo(a, b, strict) ==
    IF isNull(a, Root) THEN isNull(b, Root)
    ELSE IF isBool(a, Root)
    THEN isBool(b, Root) /\ getBool(a, Root) = getBool(b, Root)
    ELSE IF isNumber(a, Root)
    THEN /\ isNumber(b, Root)
         /\ getDouble(a, Root) = getDouble(b, Root)
         /\ strict => /\ isInteger(a, Root) = isInteger(b, Root)
                      /\ isDouble(a, Root) = isDouble(b, Root)
    ELSE IF isString(a, Root)
    THEN isString(b, Root) /\ getString(a, Root) = getString(b, Root)
    ELSE IF isArray(a, Root)
    THEN /\ isArray(b, Root)
         /\ Len(a.elems) = Len(b.elems)
         /\ \A i \in 1..Len(a.elems) :
               BasicAdapter_equalTo(a.elems[i], b.elems[i], strict)
    ELSE IF isObject(a, Root)
    THEN /\ isObject(b, Root)
         /\ Json_size(a) = Json_size(b)
         /\ \A k \in DOMAIN a.members :
               /\ Json_isMember(b, k)
               /\ BasicAdapter_equalTo(a.members[k], b.members[k], strict)
    ELSE FALSE

\* equalTo(other, strict): JsonCppAdapter(m_value).equalTo(other, strict)
JsonCppFrozenValue_equalTo(f, t, other, strict) ==
    BasicAdapter_equalTo(FrozenValue_value(f, t), other, strict)

\* setValueInto(into): into is an adapter of type adapterType over node r of
\* the tree d.  The dynamic_cast succeeds for a MutableJsonCppAdapter.
JsonCppFrozenValue_setValueInto(f, t, adapterType, d, r) ==
    IF adapterType = "MutableJsonCppAdapter"
    THEN [tree |-> setValue(d, r, FrozenValue_value(f, t)), ub |-> FALSE]
    ELSE BasicAdapter_setValue(adapterType, d, r, FrozenValue_value(f, t))

-----------------------------------------------------------------------------
(* The caller: the calls made on a document through the adapter layer      *)

NoCall == [op |-> "none", outcome |-> "returned"]
NoFrozen == [made |-> FALSE]
NotHeld == [kept |-> FALSE]
NoOriginal == [value |-> NullV, from |-> Unbound, writtenInto |-> {}]

\* a call that ended the process (abort), or never returns, ends the run
Alive == call.outcome \notin {"crash", "hang"}

\* the values a caller hands to Assign
SourceValues ==
    { NullV, BoolV(TRUE), IntV(5), RealV(3), StrV("s"),
      ObjV([k \in {"b"} |-> ArrV(<<NullV, IntV(2)>>)]),
      ArrV(<<IntV(5), StrV("s")>>) }

\* the member names a caller hands to CreateKey and create(name)
PropertyNames == {"a", "b"}

InitDocuments == { EmptyObject, ObjV([k \in {"a"} |-> IntV(1)]) }

\* the nodes a caller holds an adapter over: none, the document, its members
NodeRefs(t) ==
    {Unbound, Root}
        \cup (IF Json_isObject(t)
              THEN {Child(Root, KeyStep(k)) : k \in DOMAIN t.members}
              ELSE {})

\* the containers a caller holds: built over no value or over the document,
\* when it is of the container's kind (the constructor throws otherwise)
ArrayContainers(t) == {r \in {Unbound, Root} : ~JsonCppArray(t, r).thrown}
ObjectContainers(t) == {r \in {Unbound, Root} : ~JsonCppObject(t, r).thrown}

Others == <<schemaDocument, frozen, cloned, frozenOriginal, otherDocument,
            insertionOrder, held>>

\* history: the CreateKey call that came directly before, when it made the
\* member that r refers to
Preceding(r) ==
    IF call.op = "CreateKey" /\ call.ref.bound
           /\ r = Child(call.ref, KeyStep(call.arg))
    THEN [op |-> "CreateKey", adapter |-> call.adapter, ref |-> call.ref,
          arg |-> call.arg, before |-> call.before]
    ELSE [op |-> "other"]

\* Assign(destination, source): destination.setValue(source)
Assign(adapterType, r, s) ==
    /\ Alive
    /\ LET res == BasicAdapter_setValue(adapterType, document, r, s) IN
       /\ document' = res.tree
       /\ \E o \in (IF res.ub THEN {"crash", "returned"} ELSE {"returned"}) :
            call' = [op |-> "Assign", adapter |-> adapterType, ref |-> r,
                     arg |-> s, before |-> document, outcome |-> o,
                     follows |-> Preceding(r)]
    /\ UNCHANGED Others

\* CreateKey(object, name)
CreateKey(adapterType, c, propertyName) ==
    /\ Alive
    /\ document' = CreateKeyHelper(adapterType, document, c, propertyName)
    /\ call' = [op |-> "CreateKey", adapter |-> adapterType, ref |-> c,
                arg |-> propertyName, before |-> document,
                outcome |-> "returned"]
    /\ UNCHANGED Others

\* Resize(array, index)
Resize(adapterType, c, index) ==
    /\ Alive
    /\ LET res == ResizeHelper(adapterType, document, c, index) IN
       /\ document' = res.tree
       \* a loop that never exits and has no effect is undefined behaviour:
       \* the build may spin in it or may have removed it
       /\ \E o \in (IF res.returns THEN {"returned"}
                    ELSE {"hang", "returned"}) :
            call' = [op |-> "Resize", adapter |-> adapterType, ref |-> c,
                     arg |-> index, before |-> document, outcome |-> o]
    /\ UNCHANGED Others

\* one of the setters of a JsonCppValue<Json::Value>
Setters == {"setAsArray", "setAsObject", "setBool", "setDouble",
            "setInteger", "setString"}
ApplySetter(t, r, setter) ==
    CASE setter = "setAsArray" -> setAsArray(t, r)
      [] setter = "setAsObject" -> setAsObject(t, r)
      [] setter = "setBool" -> setBool(t, r, TRUE)
      [] setter = "setDouble" -> setDouble(t, r, 3)
      [] setter = "setInteger" -> setInteger(t, r, 5)
      [] setter = "setString" -> setString(t, r, "s")

Set(r, setter) ==
    /\ Alive
    /\ document' = ApplySetter(document, r, setter)
    /\ call' = [op |-> "Set", adapter |-> "MutableJsonCppAdapter", ref |-> r,
                arg |-> setter, before |-> document, outcome |-> "returned"]
    /\ UNCHANGED Others

\* JsonCppArray::create() called directly
ArrayCreate(c) ==
    /\ Alive
    /\ Container_size(document, c) <= MaxIndex
    /\ LET made == JsonCppArray_create(document, c) IN
       /\ document' = made.tree
       /\ call' = [op |-> "ArrayCreate", adapter |-> "MutableJsonCppAdapter",
                   ref |-> c, arg |-> "", before |-> document,
                   outcome |-> "returned", result |-> made.adapter]
    /\ UNCHANGED Others

\* JsonCppObject::create(name) called directly
ObjectCreate(c, propertyName) ==
    /\ Alive
    /\ LET made == JsonCppObject_create(document, c, propertyName) IN
       /\ document' = made.tree
       /\ call' = [op |-> "ObjectCreate", adapter |-> "MutableJsonCppAdapter",
                   ref |-> c, arg |-> propertyName, before |-> document,
                   outcome |-> "returned", result |-> made.adapter,
                   earlier |-> held]
    /\ UNCHANGED Others

Init ==
    /\ document \in InitDocuments
    /\ call = NoCall
    /\ schemaDocument = NullV
    /\ frozen = NoFrozen
    /\ cloned = NoFrozen
    /\ frozenOriginal = NoOriginal
    /\ otherDocument = NullV
    /\ insertionOrder = <<>>
    /\ held = NotHeld

Next ==
    \/ \E a \in AdapterTypes, r \in NodeRefs(document), s \in SourceValues :
          Assign(a, r, s)
    \/ \E a \in AdapterTypes, c \in ObjectContainers(document),
             k \in PropertyNames : CreateKey(a, c, k)
    \/ \E a \in AdapterTypes, c \in ArrayContainers(document), i \in 0..MaxIndex :
          Resize(a, c, i)
    \/ \E r \in NodeRefs(document), setter \in Setters : Set(r, setter)
    \/ \E c \in ArrayContainers(document) : ArrayCreate(c)
    \/ \E c \in ObjectContainers(document), k \in PropertyNames :
          ObjectCreate(c, k)

Spec == Init /\ [][Next]_vars

-----------------------------------------------------------------------------
(* The container tests: a document built by appends or by insertions of    *)
(* distinct names, then wrapped, iterated and searched                      *)

ScalarDocuments == {NullV, BoolV(TRUE), IntV(5), RealV(3), StrV("s")}

\* document.append(Json::Value(i)), i the number of elements so far
TestAppend ==
    /\ Json_isArray(document)
    /\ Json_size(document) <= MaxIndex
    /\ LET v == IntV(Json_size(document)) IN
       /\ document' = Json_append(document, v)
       /\ insertionOrder' = Append(insertionOrder, v)
    /\ call' = [op |-> "append", outcome |-> "returned"]
    /\ UNCHANGED <<schemaDocument, frozen, cloned, frozenOriginal,
                   otherDocument, held>>

\* document[name] = Json::Value(double(i)), name not used before
TestInsert(name) ==
    /\ Json_isObject(document)
    /\ ~Json_isMember(document, name)
    /\ LET v == RealV(2 * Json_size(document)) IN
       /\ document' = Store(Json_subscript(document, name),
                            <<KeyStep(name)>>, v)
       /\ insertionOrder' = Append(insertionOrder, <<name, v>>)
    /\ call' = [op |-> "insert", outcome |-> "returned"]
    /\ UNCHANGED <<schemaDocument, frozen, cloned, frozenOriginal,
                   otherDocument, held>>

\* the nodes of the built document: none, the document, its children
BuiltRefs(t) ==
    NodeRefs(t)
        \cup (IF Json_isArray(t)
              THEN {Child(Root, IdxStep(i)) : i \in 1..Len(t.elems)}
              ELSE {})

Unbuilt == <<document, schemaDocument, frozen, cloned, frozenOriginal,
             otherDocument, insertionOrder, held>>

\* JsonCppArray(value) / JsonCppObject(value): the constructor, and size(),
\* begin() and end() of the container when it is made
Construct(kind, r) ==
    /\ LET made == IF kind = "array" THEN JsonCppArray(document, r)
                   ELSE JsonCppObject(document, r)
       IN  call' = IF made.thrown
                   THEN [op |-> "Construct", kind |-> kind, ref |-> r,
                         outcome |-> "TypeMismatch"]
                   ELSE [op |-> "Construct", kind |-> kind, ref |-> r,
                         outcome |-> "returned",
                         size |-> Container_size(document, made.container),
                         begin |-> Container_begin(document, made.container),
                         end |-> Container_end(document, made.container)]
    /\ UNCHANGED Unbuilt

\* for (auto item : container): what each step dereferences to
Iterate(kind, c) ==
    /\ call' = [op |-> "Iterate", kind |-> kind, ref |-> c,
                outcome |-> "returned",
                visited |-> IF kind = "array"
                            THEN ArrayVisit(document, c,
                                            Container_begin(document, c))
                            ELSE MemberVisit(document, c,
                                             Container_begin(document, c))]
    /\ UNCHANGED Unbuilt

\* object.find(name)
Find(c, name) ==
    /\ call' = [op |-> "find", ref |-> c, arg |-> name,
                outcome |-> "returned",
                result |-> JsonCppObject_find(document, c, name)]
    /\ UNCHANGED Unbuilt

BuiltArrayContainers(t) == {r \in BuiltRefs(t) : ~JsonCppArray(t, r).thrown}
BuiltObjectContainers(t) == {r \in BuiltRefs(t) : ~JsonCppObject(t, r).thrown}

InitContainer ==
    /\ document \in {EmptyArray, EmptyObject} \cup ScalarDocuments
    /\ call = NoCall
    /\ schemaDocument = NullV
    /\ frozen = NoFrozen
    /\ cloned = NoFrozen
    /\ frozenOriginal = NoOriginal
    /\ otherDocument = NullV
    /\ insertionOrder = <<>>
    /\ held = NotHeld

NextContainer ==
    \/ TestAppend
    \/ \E name \in Keys : TestInsert(name)
    \/ \E kind \in {"array", "object"}, r \in BuiltRefs(document) :
          Construct(kind, r)
    \/ \E c \in BuiltArrayContainers(document) : Iterate("array", c)
    \/ \E c \in BuiltObjectContainers(document) : Iterate("object", c)
    \/ \E c \in BuiltObjectContainers(document), name \in Keys : Find(c, name)

SpecContainer == InitContainer /\ [][NextContainer]_vars

-----------------------------------------------------------------------------
(* A caller that keeps the adapter create(name) returned and writes through *)
(* it.  The object itself is never assigned, so the adapter stays valid.    *)

\* create(name), the adapter returned being kept
CreateAndKeep(c, propertyName) ==
    /\ LET made == JsonCppObject_create(document, c, propertyName) IN
       /\ document' = made.tree
       /\ call' = [op |-> "ObjectCreate", adapter |-> "MutableJsonCppAdapter",
                   ref |-> c, arg |-> propertyName, before |-> document,
                   outcome |-> "returned", result |-> made.adapter,
                   earlier |-> held]
       /\ held' = [kept |-> TRUE, container |-> c, name |-> propertyName,
                   adapter |-> made.adapter]
    /\ UNCHANGED <<schemaDocument, frozen, cloned, frozenOriginal,
                   otherDocument, insertionOrder>>

\* a setter called on the adapter that was kept
WriteThroughHeld(setter) ==
    /\ held.kept
    /\ document' = ApplySetter(document, held.adapter, setter)
    /\ call' = [op |-> "Set", adapter |-> "MutableJsonCppAdapter",
                ref |-> held.adapter, arg |-> setter, before |-> document,
                outcome |-> "returned"]
    /\ UNCHANGED Others

InitHandles ==
    /\ document \in InitDocuments
    /\ call = NoCall
    /\ schemaDocument = NullV
    /\ frozen = NoFrozen
    /\ cloned = NoFrozen
    /\ frozenOriginal = NoOriginal
    /\ otherDocument = NullV
    /\ insertionOrder = <<>>
    /\ held = NotHeld

NextHandles ==
    \/ \E c \in ObjectContainers(document), k \in PropertyNames :
          CreateAndKeep(c, k)
    \/ \E c \in ObjectContainers(document), k \in PropertyNames :
          ObjectCreate(c, k)
    \/ \E a \in AdapterTypes, c \in ObjectContainers(document),
             k \in PropertyNames : CreateKey(a, c, k)
    \/ \E setter \in Setters : WriteThroughHeld(setter)

SpecHandles == InitHandles /\ [][NextHandles]_vars

-----------------------------------------------------------------------------
(* Defaults: a value frozen from a schema document, cloned, and written     *)
(* into documents, while the schema document and the documents are changed  *)

SchemaDocuments == { ObjV([k \in {"a"} |-> v]) : v \in SourceValues }
PriorDocuments ==
    { NullV, IntV(1), ObjV([k \in {"a"} |-> IntV(1)]), ArrV(<<StrV("s")>>) }

MemberRefs(t) == {r \in NodeRefs(t) : r.bound /\ r.path # <<>>}

Freeze(r) ==
    /\ ~frozen.made
    /\ frozen' = JsonCppValue_freeze(schemaDocument, r)
    /\ frozenOriginal' = [value |-> IF r.bound THEN Deref(schemaDocument, r)
                                    ELSE NullV,
                          from |-> r, writtenInto |-> {}]
    /\ call' = [op |-> "freeze", ref |-> r, outcome |-> "returned"]
    /\ UNCHANGED <<document, schemaDocument, cloned, otherDocument,
                   insertionOrder, held>>

Clone ==
    /\ frozen.made
    /\ ~cloned.made
    /\ cloned' = JsonCppFrozenValue_clone(frozen, schemaDocument)
    /\ call' = [op |-> "clone", outcome |-> "returned"]
    /\ UNCHANGED <<document, schemaDocument, frozen, frozenOriginal,
                   otherDocument, insertionOrder, held>>

\* a setter called on a member of the schema document
WriteSchema(r, setter) ==
    /\ schemaDocument' = ApplySetter(schemaDocument, r, setter)
    /\ call' = [op |-> "SetSchema", ref |-> r, arg |-> setter,
                outcome |-> "returned"]
    /\ UNCHANGED <<document, frozen, cloned, frozenOriginal, otherDocument,
                   insertionOrder, held>>

\* the tree an adapter of the given type is over
DestinationOf(adapterType) ==
    IF adapterType = OtherMutableAdapter THEN otherDocument ELSE document

\* f.setValueInto(into), f being frozen or cloned
SetValueInto(f, adapterType, r) ==
    /\ Alive
    /\ f.made
    /\ LET d == DestinationOf(adapterType)
           res == JsonCppFrozenValue_setValueInto(f, schemaDocument,
                                                  adapterType, d, r)
       IN  /\ IF adapterType = OtherMutableAdapter
              THEN otherDocument' = res.tree /\ document' = document
              ELSE document' = res.tree /\ otherDocument' = otherDocument
           /\ \E o \in (IF res.ub THEN {"crash", "returned"}
                        ELSE {"returned"}) :
                call' = [op |-> "setValueInto", adapter |-> adapterType,
                         ref |-> r,
                         arg |-> FrozenValue_value(f, schemaDocument),
                         before |-> d, outcome |-> o]
    /\ frozenOriginal' =
          [frozenOriginal EXCEPT !.writtenInto = @ \cup {adapterType}]
    /\ UNCHANGED <<schemaDocument, frozen, cloned, insertionOrder, held>>

InitFrozen ==
    /\ schemaDocument \in SchemaDocuments
    /\ document \in PriorDocuments
    /\ otherDocument = document
    /\ call = NoCall
    /\ frozen = NoFrozen
    /\ cloned = NoFrozen
    /\ frozenOriginal = NoOriginal
    /\ insertionOrder = <<>>
    /\ held = NotHeld

NextFrozen ==
    \/ \E r \in NodeRefs(schemaDocument) : Freeze(r)
    \/ Clone
    \/ \E r \in MemberRefs(schemaDocument) : WriteSchema(r, "setAsArray")
    \/ \E f \in {frozen, cloned},
          a \in AdapterTypes \cup {OtherMutableAdapter} :
          \E r \in NodeRefs(DestinationOf(a)) : SetValueInto(f, a, r)
    \/ Set(Root, "setString")

SpecFrozen == InitFrozen /\ [][NextFrozen]_vars

-----------------------------------------------------------------------------
(* The typed getters: nodes written by setters with arguments over the      *)
(* whole int64_t and double range, then read by each getter                  *)

\* arguments of setInteger(int64_t), inside and outside the range of Int
IntegerInputs == {Json_minInt - 1, Json_minInt, 0, 5, Json_maxInt,
                  Json_maxInt + 1}
\* arguments of setDouble, each twice the double: 1.5, 5.0, maxInt + 1.0
DoubleInputs == {3, 10, 2 * (Json_maxInt + 1)}

SetterCalls ==
    {<<"setAsArray", 0>>, <<"setAsObject", 0>>, <<"setString", "s">>}
        \cup {<<"setBool", b>> : b \in BOOLEAN}
        \cup {<<"setInteger", i>> : i \in IntegerInputs}
        \cup {<<"setDouble", d>> : d \in DoubleInputs}

ApplySetterCall(t, r, sc) ==
    CASE sc[1] = "setAsArray" -> setAsArray(t, r)
      [] sc[1] = "setAsObject" -> setAsObject(t, r)
      [] sc[1] = "setBool" -> setBool(t, r, sc[2])
      [] sc[1] = "setDouble" -> setDouble(t, r, sc[2])
      [] sc[1] = "setInteger" -> setInteger(t, r, sc[2])
      [] sc[1] = "setString" -> setString(t, r, sc[2])

SetTo(r, sc) ==
    /\ document' = ApplySetterCall(document, r, sc)
    /\ call' = [op |-> "SetTo", ref |-> r, arg |-> sc[1], before |-> document,
                outcome |-> "returned"]
    /\ UNCHANGED Others

Getters == {"getBool", "getDouble", "getInteger", "getString"}
ApplyGetter(t, r, getter) ==
    CASE getter = "getBool" -> getBool(t, r)
      [] getter = "getDouble" -> getDouble(t, r)
      [] getter = "getInteger" -> getInteger(t, r)
      [] getter = "getString" -> getString(t, r)

\* a getter called on the node r; an exception reaches the caller
Get(r, getter) ==
    /\ LET got == ApplyGetter(document, r, getter) IN
         call' = [op |-> "Get", ref |-> r, arg |-> getter, before |-> document,
                  result |-> got,
                  outcome |-> IF "raised" \in DOMAIN got
                              THEN "raised" ELSE "returned"]
    /\ UNCHANGED document
    /\ UNCHANGED Others

InitGetters ==
    /\ document \in {NullV, ObjV([k \in {"a"} |-> NullV])}
    /\ call = NoCall
    /\ schemaDocument = NullV
    /\ frozen = NoFrozen
    /\ cloned = NoFrozen
    /\ frozenOriginal = NoOriginal
    /\ otherDocument = NullV
    /\ insertionOrder = <<>>
    /\ held = NotHeld

NextGetters ==
    \/ \E r \in NodeRefs(document), sc \in SetterCalls : SetTo(r, sc)
    \/ \E r \in NodeRefs(document), getter \in Getters : Get(r, getter)

SpecGetters == InitGetters /\ [][NextGetters]_vars

-----------------------------------------------------------------------------
(* Claims                                                                   *)

\* an Assign through a mutable adapter into a bound destination
MutableAssign ==
    /\ call.op = "Assign"
    /\ HasMutableTag(call.adapter)
    /\ call.ref.bound
DestBefore == Deref(call.before, call.ref)
DestAfter == Deref(document, call.ref)
ObjectIntoObject ==
    /\ MutableAssign
    /\ Json_isObject(DestBefore)
    /\ Json_isObject(call.arg)

C2_ReadOnlyUnchanged ==
    (call.op \in {"Assign", "CreateKey", "Resize"}
        /\ call.adapter = "JsonCppAdapter")
    => (document = call.before /\ call.outcome = "returned")

\* C2 witness: an object assigned into the empty document through the
\* read-only adapter; the document still has size 0
C2_Witness ==
    /\ call.op = "Assign"
    /\ call.adapter = "JsonCppAdapter"
    /\ call.ref = Root
    /\ call.before = EmptyObject
    /\ Json_isObject(call.arg) /\ Json_size(call.arg) > 0
    /\ Json_size(document) = 0

\* CreateKey(object, k) for an absent k on a bound mutable object, directly
\* followed by Assign(object[k], v)
DefaultPopulated ==
    /\ MutableAssign
    /\ call.follows.op = "CreateKey"
    /\ HasMutableTag(call.follows.adapter)
    /\ call.follows.ref.bound
    /\ call.follows.arg \notin DOMAIN Deref(call.follows.before, call.follows.ref).members
    /\ call.ref = Child(call.follows.ref, KeyStep(call.follows.arg))

\* C3: after CreateKey(object, k) and Assign(object[k], v) on an object
\* without a member k, the object has exactly one more member, that member
\* is k and shows the value v, and every other member is as it was.
C3_DefaultPopulated ==
    DefaultPopulated =>
        LET k == call.follows.arg
            was == Deref(call.follows.before, call.follows.ref)
            now == Deref(document, call.follows.ref)
        IN  /\ call.outcome = "returned"
            /\ Json_isObject(now)
            /\ DOMAIN now.members = DOMAIN was.members \cup {k}
            /\ Json_size(now) = Json_size(was) + 1
            /\ Observe(now.members[k]) = Observe(call.arg)
            /\ \A j \in DOMAIN was.members : now.members[j] = was.members[j]

\* C3 witness: the empty document, key "a", default 5: {"a": 5}, size 1
C3_Witness ==
    /\ DefaultPopulated
    /\ call.follows.before = EmptyObject
    /\ call.arg = IntV(5)
    /\ Json_size(document) = 1
    /\ getInteger(document, call.ref) = Present(5)

\* C5 as stated: nothing done through an unbound reference fails, and no
\* write through it changes a tree.  Reads report absent or empty; the
\* setters, create(), create(name) and Assign into an unbound mutable
\* destination return with the document unchanged.
C5_UnboundNeverFails ==
    /\ isNull(document, Unbound)
    /\ ~isBool(document, Unbound) /\ ~isInteger(document, Unbound)
    /\ ~isDouble(document, Unbound) /\ ~isNumber(document, Unbound)
    /\ ~isString(document, Unbound) /\ ~isArray(document, Unbound)
    /\ ~isObject(document, Unbound)
    /\ getBool(document, Unbound) = Absent
    /\ getDouble(document, Unbound) = Absent
    /\ getInteger(document, Unbound) = Absent
    /\ getString(document, Unbound) = Absent
    /\ getArrayOptional(document, Unbound) = Absent
    /\ getObjectOptional(document, Unbound) = Absent
    /\ getArraySize(document, Unbound) = Absent
    /\ getObjectSize(document, Unbound) = Absent
    /\ Container_size(document, Unbound) = 0
    /\ (call.op \in {"Set", "ArrayCreate", "ObjectCreate", "CreateKey", "Assign"}
           /\ ~call.ref.bound)
       => (call.outcome = "returned" /\ document = call.before)

\* C6: a container constructed over a bound node of another kind, a null
\* node included, fails with the type mismatch; constructed over an unbound
\* reference it is made, with size() = 0 and begin() = end().
C6_ContainerConstruction ==
    call.op = "Construct" =>
        LET wanted == IF call.kind = "array" THEN "arrayValue"
                      ELSE "objectValue"
        IN  /\ (call.ref.bound /\ Deref(document, call.ref).type # wanted)
                   => call.outcome = "TypeMismatch"
            /\ ~call.ref.bound
                   => /\ call.outcome = "returned"
                      /\ call.size = 0
                      /\ call.begin = call.end

\* C6 witness: a container asked for over a bound node that holds null
C6_Witness ==
    /\ call.op = "Construct"
    /\ call.ref.bound
    /\ Json_isNull(Deref(document, call.ref))
    /\ call.outcome = "TypeMismatch"

IteratedDocument == call.op = "Iterate" /\ call.ref = Root

C9_Find ==
    call.op = "find" =>
        LET c == call.ref
            has == /\ c.bound
                   /\ \E k \in DOMAIN Deref(document, c).members :
                         KeyBytes(k) = KeyBytes(call.arg)
        IN  /\ (call.result = Container_end(document, c)) <=> ~has
            /\ call.result # Container_end(document, c)
                  => MemberIterator_deref(document, call.result)[1] = call.arg

\* C9 witness: "ab" found in an object that also has the member "a"
C9_Witness ==
    /\ call.op = "find"
    /\ call.ref.bound
    /\ call.arg = "ab"
    /\ Json_isMember(document, "a")
    /\ call.result # Container_end(document, call.ref)

\* create(name), or CreateKey through a mutable adapter, on a bound object
CreatedByName ==
    /\ \/ call.op = "ObjectCreate"
       \/ call.op = "CreateKey" /\ HasMutableTag(call.adapter)
    /\ call.ref.bound

\* C8: create(name) on an object that has the member changes nothing, and
\* otherwise adds exactly one member, name, holding null.  The adapter it
\* returns is over that member: it is the one an earlier create(name)
\* returned, what was written through that one is read through this one, and
\* no key occurs twice.
C8_CreateIdempotent ==
    CreatedByName =>
        LET was == Deref(call.before, call.ref)
            now == Deref(document, call.ref)
        IN  /\ call.arg \in DOMAIN was.members => document = call.before
            /\ call.arg \notin DOMAIN was.members
                  => /\ Json_size(now) = Json_size(was) + 1
                     /\ DOMAIN now.members = DOMAIN was.members \cup {call.arg}
                     /\ now.members[call.arg] = NullV
                     /\ \A k \in DOMAIN was.members :
                           now.members[k] = was.members[k]
            /\ \A i, j \in 1..Len(MemberOrder(now)) :
                  MemberOrder(now)[i] = MemberOrder(now)[j] => i = j
            /\ call.op = "ObjectCreate"
                  => /\ call.result = Child(call.ref, KeyStep(call.arg))
                     /\ (call.earlier.kept /\ call.earlier.container = call.ref
                            /\ call.earlier.name = call.arg)
                        => /\ call.result = call.earlier.adapter
                           /\ Deref(document, call.result)
                                 = Deref(call.before, call.earlier.adapter)

\* C8 witness: the second create(name) after a write through the adapter the
\* first one returned; the written value is read through the second
C8_Witness ==
    /\ call.op = "ObjectCreate"
    /\ call.ref.bound
    /\ call.earlier.kept
    /\ call.earlier.container = call.ref /\ call.earlier.name = call.arg
    /\ Deref(document, call.result) = StrV("s")
    /\ Json_size(document) = Json_size(call.before)

\* the destination after setValueInto of the snapshot value v into an adapter
\* of the given type over node r of the tree d
WrittenBy(adapterType, v, d, r) ==
    JsonCppFrozenValue_setValueInto(
        JsonCppFrozenValue([ref |-> Unbound, value |-> v]),
        schemaDocument, adapterType, d, r).tree

\* C4: setValueInto leaves the same observable destination value on its fast
\* path (a destination of the snapshot's own representation) as on its
\* generic path (a mutable destination of another representation), for every
\* snapshot value and every prior value of the destination.
C4_PathsAgree ==
    (call.op = "setValueInto" /\ call.ref.bound
       /\ HasMutableTag(call.adapter))
    => Observe(WrittenBy("MutableJsonCppAdapter", call.arg, call.before,
                         call.ref))
       = Observe(WrittenBy(OtherMutableAdapter, call.arg, call.before,
                           call.ref))

\* C10: a frozen value and its clone keep the value present at freeze time
\* whatever is written afterwards to the tree it was copied from or to a
\* destination it was written into, so a clone is strictly equal to a node
\* that holds that value.
C10_NeverAliases ==
    \A f \in {frozen, cloned} :
       f.made =>
          /\ FrozenValue_value(f, schemaDocument) = frozenOriginal.value
          /\ JsonCppFrozenValue_equalTo(
                JsonCppFrozenValue_clone(f, schemaDocument), schemaDocument,
                frozenOriginal.value, TRUE)

\* a snapshot of an object was cloned and written into the document, and both
\* the node it was frozen from and the document were written to afterwards
C10_Witness ==
    /\ frozen.made
    /\ cloned.made
    /\ frozenOriginal.from.bound
    /\ Json_isObject(frozenOriginal.value)
    /\ Deref(schemaDocument, frozenOriginal.from) # frozenOriginal.value
    /\ "MutableJsonCppAdapter" \in frozenOriginal.writtenInto
    /\ call.op = "Set"
    /\ call.before = frozenOriginal.value
    /\ document # frozenOriginal.value

\* the kind predicates that are true of the node r of the tree t
KindsOf(t, r) ==
    {k \in {"null", "boolean", "integer", "double", "string", "array",
            "object"} :
        CASE k = "null" -> isNull(t, r)
          [] k = "boolean" -> isBool(t, r)
          [] k = "integer" -> isInteger(t, r)
          [] k = "double" -> isDouble(t, r)
          [] k = "string" -> isString(t, r)
          [] k = "array" -> isArray(t, r)
          [] k = "object" -> isObject(t, r)}

\* C11: every node reference has exactly one value kind: exactly one of
\* isNull, isBool, isInteger, isDouble, isString, isArray, isObject is true,
\* isInteger and isBool are never both true, and isNumber is true exactly
\* when isInteger or isDouble is.
C11_ExactlyOneKind ==
    \A r \in NodeRefs(document) :
       /\ Cardinality(KindsOf(document, r)) = 1
       /\ ~(isInteger(document, r) /\ isBool(document, r))
       /\ isNumber(document, r)
             <=> (isInteger(document, r) \/ isDouble(document, r))

\* the kind predicate a getter goes with
PredicateOf(t, r, getter) ==
    CASE getter = "getBool" -> isBool(t, r)
      [] getter = "getDouble" -> isDouble(t, r)
      [] getter = "getInteger" -> isInteger(t, r)
      [] getter = "getString" -> isString(t, r)

\* C12: a typed getter yields a value exactly when the node's kind predicate
\* for that getter is true, getInteger yields none on a boolean or a double,
\* and a getter that yields none returns absent without raising.
C12_GettersExact ==
    call.op = "Get" =>
       /\ call.outcome = "returned"
       /\ call.result.present <=> PredicateOf(call.before, call.ref, call.arg)
       /\ (call.arg = "getInteger"
             /\ (isBool(call.before, call.ref)
                   \/ isDouble(call.before, call.ref)))
          => ~call.result.present

\* C13: after Assign on a bound mutable destination the destination's value
\* kind is the source's, for every source kind and every prior value of the
\* destination, and a scalar source has exactly one setter called, once.
C13_KindFollowsSource ==
    (MutableAssign /\ call.ref.bound /\ call.outcome = "returned") =>
       /\ KindsOf(document, call.ref) = KindsOf(call.arg, Root)
       /\ (isString(call.arg, Root) \/ isBool(call.arg, Root)
             \/ isNumber(call.arg, Root))
          => Len(AssignHelper_scalarSetters(call.arg)) = 1

\* C14: Resize(array, index) on a bound mutable array of length n leaves it
\* max(n, index + 1) long: null slots are appended after the first n
\* elements, which keep their values and positions; create() alone appends
\* exactly one null slot.
C14_ResizeLength ==
    /\ (call.op = "Resize" /\ HasMutableTag(call.adapter) /\ call.ref.bound)
       => LET old == Deref(call.before, call.ref).elems
              new == Deref(document, call.ref)
              n == Len(old)
              index == call.arg
          IN  /\ call.outcome = "returned"
              /\ Json_isArray(new)
              /\ Len(new.elems) = (IF n > index + 1 THEN n ELSE index + 1)
              /\ Len(new.elems) > index
              /\ Len(new.elems) - n
                    = (IF index + 1 - n > 0 THEN index + 1 - n ELSE 0)
              /\ \A i \in 1..n : new.elems[i] = old[i]
              /\ \A i \in (n + 1)..Len(new.elems) : new.elems[i] = NullV
              /\ document = Store(call.before, call.ref.path, new)
    /\ (call.op = "ArrayCreate" /\ call.ref.bound)
       => LET old == Deref(call.before, call.ref).elems
              new == Deref(document, call.ref)
          IN  /\ Json_isArray(new)
              /\ new.elems = Append(old, NullV)
              /\ call.result = Child(call.ref, IdxStep(Len(old) + 1))
              /\ isNull(document, call.result)

\* an array of two values that are not null was resized to a greater length
C14_Witness ==
    /\ call.op = "Resize"
    /\ HasMutableTag(call.adapter)
    /\ call.ref.bound
    /\ Len(Deref(call.before, call.ref).elems) = 2
    /\ \A i \in 1..2 : Deref(call.before, call.ref).elems[i] # NullV
    /\ call.arg = 2
    /\ Len(Deref(document, call.ref).elems) = 3

\* C15: Resize(array, index) terminates for every mutable array container
\* and every index, an array container over an unbound reference included.
C15_ResizeTerminates ==
    (call.op = "Resize" /\ HasMutableTag(call.adapter))
    => call.outcome = "returned"

ScalarSource ==
    isString(call.arg, Root) \/ isBool(call.arg, Root)
        \/ isNumber(call.arg, Root)

\* C16: Assign of a string, boolean, double or integer source to a bound
\* mutable destination is idempotent: a second Assign of the same source
\* leaves the tree as the first left it, and no node other than the
\* destination is changed.
C16_AssignIdempotent ==
    (MutableAssign /\ ScalarSource /\ call.outcome = "returned") =>
       LET again == BasicAdapter_setValue(call.adapter, document, call.ref,
                                          call.arg)
       IN  /\ ~again.ub
           /\ again.tree = document
           /\ document = Store(call.before, call.ref.path,
                               Deref(document, call.ref))

\* a number was assigned to one of two members and changed it
C16_Witness ==
    /\ MutableAssign
    /\ isNumber(call.arg, Root)
    /\ call.outcome = "returned"
    /\ call.ref.path # <<>>
    /\ Cardinality(DOMAIN document.members) = 2
    /\ DestBefore # DestAfter

====
